---------------------------- MODULE Spec2Model ----------------------------
(***************************************************************************)
(* Model of api/stock_api/stock_service.py: symbol normalisation, interval *)
(* resolution, OHLCV fetch and validation, indicator computation, JSON     *)
(* sanitisation and the envelope built by get_stock_data_with_features.    *)
(*                                                                         *)
(* Python strings are sequences of one-character strings.  Python floats   *)
(* are records [k, n, d]: k = "fin" is the rational n/d in lowest terms    *)
(* (d > 0), k = "nan" / "inf" / "ninf" are the IEEE specials.  Dates are    *)
(* proleptic Gregorian ordinals (date.toordinal) and their strftime        *)
(* rendering is the record [y, m, d].                                      *)
(***************************************************************************)
EXTENDS Integers, Sequences, FiniteSets, TLC

VARIABLES pc, stock_code, interval, today, range, symbol, calls, raw, df,
          records, result, obj, once, twice, closes, rsi

vars == <<pc, stock_code, interval, today, range, symbol, calls, raw, df,
          records, result, obj, once, twice, closes, rsi>>

(***************************************************************************)
(* Bounds of the model                                                     *)
(***************************************************************************)
MaxStrLen == 3
MaxRawRows == 3
MaxRows == 16
MaxWidth == 2

(***************************************************************************)
(* Generic helpers                                                         *)
(***************************************************************************)
Max(a, b) == IF a >= b THEN a ELSE b
Abs(a) == IF a < 0 THEN -a ELSE a

RECURSIVE Gcd(_, _)
Gcd(a, b) == IF b = 0 THEN a ELSE Gcd(b, a % b)

SeqsUpTo(S, n) == UNION {[1..k -> S] : k \in 0..n}

(***************************************************************************)
(* Python str operations used by the helpers                               *)
(***************************************************************************)
Whitespace == {" "}
DecimalDigits == {"0", "1", "2", "3", "4", "5", "6", "7", "8", "9"}
\* "SUP2" stands for the one character U+00B2: str.isdigit() accepts it,
\* int() rejects it with ValueError.
DigitChars == DecimalDigits \cup {"SUP2"}

DigitValue(c) ==
  CASE c = "0" -> 0 [] c = "1" -> 1 [] c = "2" -> 2 [] c = "3" -> 3
    [] c = "4" -> 4 [] c = "5" -> 5 [] c = "6" -> 6 [] c = "7" -> 7
    [] c = "8" -> 8 [] c = "9" -> 9

DigitChar(v) ==
  CASE v = 0 -> "0" [] v = 1 -> "1" [] v = 2 -> "2" [] v = 3 -> "3"
    [] v = 4 -> "4" [] v = 5 -> "5" [] v = 6 -> "6" [] v = 7 -> "7"
    [] v = 8 -> "8" [] v = 9 -> "9"

RECURSIVE LStrip(_)
LStrip(s) == IF s # <<>> /\ Head(s) \in Whitespace THEN LStrip(Tail(s)) ELSE s

RECURSIVE RStrip(_)
RStrip(s) ==
  IF s # <<>> /\ s[Len(s)] \in Whitespace
  THEN RStrip(SubSeq(s, 1, Len(s) - 1)) ELSE s

\* str.strip()
Strip(s) == RStrip(LStrip(s))

LowerChar(c) ==
  CASE c = "D" -> "d" [] c = "M" -> "m" [] c = "Y" -> "y" [] c = "X" -> "x"
    [] c = "S" -> "s" [] c = "H" -> "h" [] c = "Z" -> "z" [] OTHER -> c

\* str.lower()
Lower(s) == [i \in 1..Len(s) |-> LowerChar(s[i])]

\* str.isdigit(): non-empty and every character is a digit character
IsDigit(s) == s # <<>> /\ \A i \in 1..Len(s) : s[i] \in DigitChars

\* int(s) raises ValueError unless every character is a decimal digit
IntRaises(s) == \E i \in 1..Len(s) : s[i] \notin DecimalDigits

RECURSIVE ParseInt(_)
ParseInt(s) ==
  IF s = <<>> THEN 0
  ELSE 10 * ParseInt(SubSeq(s, 1, Len(s) - 1)) + DigitValue(s[Len(s)])

\* str(n) / f"{n}" of an int
RECURSIVE NatStr(_)
NatStr(n) ==
  IF n < 10 THEN <<DigitChar(n)>> ELSE Append(NatStr(n \div 10), DigitChar(n % 10))

IntStr(n) == IF n < 0 THEN <<"-">> \o NatStr(-n) ELSE NatStr(n)

\* s.split(".")[0]
RECURSIVE BeforeFirstDot(_)
BeforeFirstDot(s) ==
  IF s = <<>> \/ Head(s) = "." THEN <<>>
  ELSE <<Head(s)>> \o BeforeFirstDot(Tail(s))

(***************************************************************************)
(* Query values                                                            *)
(***************************************************************************)
None == [t |-> "none", n |-> 0, s |-> <<>>]
IntV(n) == [t |-> "int", n |-> n, s |-> <<>>]
StrV(s) == [t |-> "str", n |-> 0, s |-> s]

\* str(x) of a query value that is not None
PyStr(x) == IF x.t = "int" THEN IntStr(x.n) ELSE x.s

(***************************************************************************)
(* _normalize_stock_symbol                                                 *)
(***************************************************************************)
_normalize_stock_symbol(code) ==
  IF code.t = "none" THEN <<>>
  ELSE Strip(BeforeFirstDot(Strip(PyStr(code))))

(***************************************************************************)
(* _parse_interval_to_days                                                 *)
(***************************************************************************)
DefaultDays == 365
DaysPerMonth == 30
DaysPerYear == 365

ParseUnit(s, default_days) ==
  LET unit == s[Len(s)]
      value == SubSeq(s, 1, Len(s) - 1)
  IN IF ~IsDigit(value) THEN default_days
     ELSE IF IntRaises(value) THEN default_days      \* except Exception
     ELSE LET n == ParseInt(value)
          IN CASE unit = "d" -> Max(1, n)
               [] unit = "m" -> Max(1, n * DaysPerMonth)
               [] unit = "y" -> Max(1, n * DaysPerYear)
               [] OTHER -> default_days

_parse_interval_to_days(iv, default_days) ==
  IF iv.t = "none" THEN default_days
  ELSE IF iv.t = "int" THEN Max(1, iv.n)
  ELSE LET s == Lower(Strip(PyStr(iv)))
       IN IF s = <<>> THEN default_days
          ELSE IF IsDigit(s)
               THEN IF IntRaises(s) THEN default_days  \* except Exception
                    ELSE Max(1, ParseInt(s))
          ELSE ParseUnit(s, default_days)

(***************************************************************************)
(* datetime: ordinals, strftime("%Y-%m-%d") and its inverse                *)
(***************************************************************************)
MinOrdinal == 1
MaxDeltaDays == 999999999

DaysInMonth(m) ==
  CASE m = 2 -> 28
    [] m \in {4, 6, 9, 11} -> 30
    [] OTHER -> 31

RECURSIVE DaysBeforeMonthCommon(_)
DaysBeforeMonthCommon(m) ==
  IF m = 1 THEN 0 ELSE DaysBeforeMonthCommon(m - 1) + DaysInMonth(m - 1)

IsLeap(y) == y % 4 = 0 /\ (y % 100 # 0 \/ y % 400 = 0)

DaysBeforeYear(y) ==
  LET z == y - 1 IN z * 365 + z \div 4 - z \div 100 + z \div 400

DaysBeforeMonth(y, m) ==
  DaysBeforeMonthCommon(m) + (IF m > 2 /\ IsLeap(y) THEN 1 ELSE 0)

\* the date a "%Y-%m-%d" string denotes, as an ordinal
Ymd2Ord(dt) == DaysBeforeYear(dt.y) + DaysBeforeMonth(dt.y, dt.m) + dt.d

\* strftime("%Y-%m-%d") of the date with ordinal n (datetime._ord2ymd)
Ord2Ymd(ord) ==
  LET n0 == ord - 1
      n400 == n0 \div 146097
      r400 == n0 % 146097
      n100 == r400 \div 36524
      r100 == r400 % 36524
      n4 == r100 \div 1461
      r4 == r100 % 1461
      n1 == r4 \div 365
      n == r4 % 365
      year == n400 * 400 + 1 + n100 * 100 + n4 * 4 + n1
      leapyear == n1 = 3 /\ (n4 # 24 \/ n100 = 3)
      month0 == (n + 50) \div 32
      prec0 == DaysBeforeMonthCommon(month0)
                 + (IF month0 > 2 /\ leapyear THEN 1 ELSE 0)
      month == IF prec0 > n THEN month0 - 1 ELSE month0
      preceding == IF prec0 > n
                   THEN prec0 - (DaysInMonth(month)
                                  + (IF month = 2 /\ leapyear THEN 1 ELSE 0))
                   ELSE prec0
  IN IF n1 = 4 \/ n100 = 4
     THEN [y |-> year - 1, m |-> 12, d |-> 31]
     ELSE [y |-> year, m |-> month, d |-> n - preceding + 1]

NoDate == [y |-> 0, m |-> 0, d |-> 0]

(***************************************************************************)
(* _calc_date_range                                                        *)
(***************************************************************************)
\* timedelta(days=days) and end_dt - timedelta raise OverflowError outside
\* the representable range; neither is inside a try block.
_calc_date_range(iv, now) ==
  LET days == _parse_interval_to_days(iv, DefaultDays)
  IN IF days > MaxDeltaDays \/ now - days < MinOrdinal
     THEN [raised |-> TRUE, days |-> days, start_date |-> NoDate,
           end_date |-> NoDate, interval |-> <<>>]
     ELSE [raised |-> FALSE, days |-> days,
           start_date |-> Ord2Ymd(now - days),
           end_date |-> Ord2Ymd(now),
           interval |-> Append(IntStr(days), "d")]

NoRange == [raised |-> FALSE, days |-> 0, start_date |-> NoDate,
            end_date |-> NoDate, interval |-> <<>>]

(***************************************************************************)
(* float64 values: exact rationals plus the IEEE specials                  *)
(***************************************************************************)
NaN == [k |-> "nan", n |-> 0, d |-> 1]
PosInf == [k |-> "inf", n |-> 0, d |-> 1]
NegInf == [k |-> "ninf", n |-> 0, d |-> 1]
Fin(n, d) ==
  LET g == Gcd(Abs(n), d) IN [k |-> "fin", n |-> n \div g, d |-> d \div g]
\* the not yet rounded square root of n/d (n, d > 0), as .std() returns it
SqrtOf(n, d) ==
  LET g == Gcd(n, d) IN [k |-> "sqrt", n |-> n \div g, d |-> d \div g]

IsFinite(x) == x.k \in {"fin", "sqrt"}        \* math.isfinite
Neg(x) ==
  CASE x.k = "fin" -> Fin(-x.n, x.d)
    [] x.k = "inf" -> NegInf
    [] x.k = "ninf" -> PosInf
    [] OTHER -> x

\* x + y
FAdd(x, y) ==
  CASE x.k = "nan" \/ y.k = "nan" -> NaN
    [] x.k = "fin" /\ y.k = "fin" -> Fin(x.n * y.d + y.n * x.d, x.d * y.d)
    [] x.k = "fin" -> y
    [] y.k = "fin" -> x
    [] x.k = y.k -> x
    [] OTHER -> NaN                              \* inf + -inf

\* x - y
FSub(x, y) == FAdd(x, Neg(y))

\* x / y (zeros are +0.0)
FDiv(x, y) ==
  CASE x.k = "nan" \/ y.k = "nan" -> NaN
    [] x.k = "fin" /\ y.k = "fin" ->
         IF y.n = 0
         THEN (IF x.n > 0 THEN PosInf ELSE IF x.n < 0 THEN NegInf ELSE NaN)
         ELSE IF y.n > 0 THEN Fin(x.n * y.d, x.d * y.n)
         ELSE Fin(-(x.n * y.d), x.d * (-y.n))
    [] x.k = "fin" -> Fin(0, 1)                  \* finite / +-inf
    [] y.k = "fin" ->
         IF (y.n >= 0) = (x.k = "inf") THEN PosInf ELSE NegInf
    [] OTHER -> NaN                              \* inf / inf

\* a/b <= c/d for a, c >= 0 and b, d > 0, without forming the products
RECURSIVE LeqFrac(_, _, _, _)
LeqFrac(a, b, c, d) ==
  IF a \div b # c \div d THEN a \div b < c \div d
  ELSE IF a % b = 0 THEN TRUE
  ELSE IF c % d = 0 THEN FALSE
  ELSE LeqFrac(d, c % d, b, a % b)

\* the largest r in lo..hi with (r / 10^4)^2 <= n/d, given that lo is one
RECURSIVE FloorSqrt4(_, _, _, _)
FloorSqrt4(n, d, lo, hi) ==
  IF lo = hi THEN lo
  ELSE LET mid == (lo + hi + 1) \div 2
       IN IF LeqFrac(mid * mid, 100000000, n, d)
          THEN FloorSqrt4(n, d, mid, hi)
          ELSE FloorSqrt4(n, d, lo, mid - 1)

\* round(q) to the nearest integer, ties to even, for q = n/d with d > 0
RoundHalfEven(n, d) ==
  LET f == n \div d                              \* floor
      twice_rem == 2 * (n % d)
  IN IF twice_rem < d THEN f
     ELSE IF twice_rem > d THEN f + 1
     ELSE IF f % 2 = 0 THEN f ELSE f + 1

\* numpy round(x, 4)
Round4(x) ==
  CASE x.k = "fin" -> Fin(RoundHalfEven(x.n * 10000, x.d), 10000)
    [] x.k = "sqrt" ->
         LET r == FloorSqrt4(x.n, x.d, 0, 23169)
             h == 2 * r + 1
         IN IF LeqFrac(h * h, 400000000, x.n, x.d)
            THEN (IF LeqFrac(x.n, x.d, h * h, 400000000) /\ r % 2 = 0
                  THEN Fin(r, 10000) ELSE Fin(r + 1, 10000))
            ELSE Fin(r, 10000)
    [] OTHER -> x

(***************************************************************************)
(* pandas column operations used by feature_engineering.  A column is a    *)
(* sequence of float64 values in row order.                                *)
(***************************************************************************)
WindowMA10 == 10
WindowMA50 == 50
WindowVol == 20
WindowRSI == 14
Zero == Fin(0, 1)
One == Fin(1, 1)
Hundred == Fin(100, 1)

Col(table, name) == [i \in 1..Len(table) |-> table[i][name]]

\* Series.diff()
Diff(col) ==
  [t \in 1..Len(col) |-> IF t = 1 THEN NaN ELSE FSub(col[t], col[t - 1])]

\* Series.pct_change(): col / col.shift(1) - 1
PctChange(col) ==
  [t \in 1..Len(col) |->
     IF t = 1 THEN NaN ELSE FSub(FDiv(col[t], col[t - 1]), One)]

\* Series.clip(lower=0), elementwise
ClipLower0(x) ==
  CASE x.k = "fin" -> (IF x.n < 0 THEN Zero ELSE x)
    [] x.k = "ninf" -> Zero
    [] OTHER -> x

\* rolling(): the observations of a window are its finite values (NaN is
\* skipped, and infinities are turned into NaN before the window functions)
RECURSIVE SumFin(_, _, _)
SumFin(col, lo, hi) ==
  IF lo > hi THEN Zero
  ELSE FAdd(SumFin(col, lo, hi - 1), IF col[hi].k = "fin" THEN col[hi] ELSE Zero)

RECURSIVE SumSqFin(_, _, _)
SumSqFin(col, lo, hi) ==
  IF lo > hi THEN Zero
  ELSE FAdd(SumSqFin(col, lo, hi - 1),
            IF col[hi].k = "fin"
            THEN Fin(col[hi].n * col[hi].n, col[hi].d * col[hi].d) ELSE Zero)

NObs(col, lo, hi) == Cardinality({i \in lo..hi : col[i].k = "fin"})

\* Series.rolling(window=w, min_periods=1).mean()
RollingMean(col, w) ==
  [t \in 1..Len(col) |->
     LET lo == Max(1, t - w + 1)
         nobs == NObs(col, lo, t)
     IN IF nobs = 0 THEN NaN ELSE FDiv(SumFin(col, lo, t), Fin(nobs, 1))]

\* Series.rolling(window=w, min_periods=1).std()   (ddof = 1)
RollingStd(col, w) ==
  [t \in 1..Len(col) |->
     LET lo == Max(1, t - w + 1)
         nobs == NObs(col, lo, t)
         s == SumFin(col, lo, t)
         ssq == SumSqFin(col, lo, t)
         \* (sum x^2 - (sum x)^2 / nobs) / (nobs - 1)
         var == FDiv(FSub(ssq, Fin(s.n * s.n, s.d * s.d * nobs)),
                     Fin(nobs - 1, 1))
     IN IF nobs < 2 THEN NaN
        ELSE IF var.n = 0 THEN Zero ELSE SqrtOf(var.n, var.d)]

\* the zero average loss left in place
ReplaceZeroOmitted(x) == x

\* avg_loss.replace(0, np.nan), elementwise
ReplaceZero(x) == IF x.k = "fin" /\ x.n = 0 THEN NaN ELSE x

\* lines 207-218: the RSI column of a Close column, before rounding
RSIRaw(close) ==
  LET delta == Diff(close)
      gain == [t \in 1..Len(close) |-> ClipLower0(delta[t])]
      loss == [t \in 1..Len(close) |-> ClipLower0(Neg(delta[t]))]
      avg_gain == RollingMean(gain, WindowRSI)
      avg_loss0 == RollingMean(loss, WindowRSI)
      avg_loss == [t \in 1..Len(close) |-> ReplaceZero(avg_loss0[t])]
  IN [t \in 1..Len(close) |->
        LET rs == FDiv(avg_gain[t], avg_loss[t])
        IN FSub(Hundred, FDiv(Hundred, FAdd(One, rs)))]

\* lines 207-222: the RSI column as feature_engineering returns it
RSIColumn(close) ==
  LET r == RSIRaw(close) IN [t \in 1..Len(close) |-> Round4(r[t])]

(***************************************************************************)
(* feature_engineering                                                     *)
(***************************************************************************)
feature_engineering(table) ==
  IF table = <<>> THEN <<>>
  ELSE LET close == Col(table, "Close")
           ma10 == RollingMean(close, WindowMA10)
           ma50 == RollingMean(close, WindowMA50)
           ret == PctChange(close)
           vol == RollingStd(ret, WindowVol)
           rsicol == RSIColumn(close)
       IN [t \in 1..Len(table) |->
             [Date |-> table[t].Date,
              Open |-> Round4(table[t].Open),
              High |-> Round4(table[t].High),
              Low |-> Round4(table[t].Low),
              Close |-> Round4(table[t].Close),
              Volume |-> Round4(table[t].Volume),
              MA_10 |-> Round4(ma10[t]),
              MA_50 |-> Round4(ma50[t]),
              Daily_Return |-> Round4(ret[t]),
              Volatility_20d |-> Round4(vol[t]),
              RSI |-> rsicol[t]]]

(***************************************************************************)
(* Python values handed to the sanitiser.  ty is the Python type; f is the *)
(* number of a numeric scalar; items are the members of a list or tuple or *)
(* the entries of a dict in insertion order.  key is the key under which   *)
(* the value sits in its enclosing dict ("" elsewhere).                    *)
(***************************************************************************)
VNone == [ty |-> "none", key |-> "", f |-> Zero, items |-> <<>>]
VFloat(x) == [ty |-> "float", key |-> "", f |-> x, items |-> <<>>]
VNpFloat(x) == [ty |-> "npfloat", key |-> "", f |-> x, items |-> <<>>]
VInt(n) == [ty |-> "int", key |-> "", f |-> Fin(n, 1), items |-> <<>>]
VNpInt(n) == [ty |-> "npint", key |-> "", f |-> Fin(n, 1), items |-> <<>>]
VStr == [ty |-> "str", key |-> "", f |-> Zero, items |-> <<>>]
VTimestamp(day) == [ty |-> "timestamp", key |-> "", f |-> Fin(day, 1), items |-> <<>>]
VList(vs) == [ty |-> "list", key |-> "", f |-> Zero, items |-> vs]
VTuple(vs) == [ty |-> "tuple", key |-> "", f |-> Zero, items |-> vs]
VDict(vs) == [ty |-> "dict", key |-> "", f |-> Zero, items |-> vs]
WithKey(v, k) == [v EXCEPT !.key = k]

(***************************************************************************)
(* _sanitize_for_json                                                      *)
(***************************************************************************)
\* lines 98-99: numpy scalar -> python scalar
Unbox(v) ==
  CASE v.ty = "npfloat" -> [v EXCEPT !.ty = "float"]
    [] v.ty = "npint" -> [v EXCEPT !.ty = "int"]
    [] OTHER -> v

\* a sanitiser that returns the unboxed numpy scalar without the finite test
RECURSIVE SanitizeUnboxReturns(_)
SanitizeUnboxReturns(v) ==
  LET o == Unbox(v)
  IN IF v.ty \in {"npfloat", "npint"} THEN o
     ELSE IF o.ty = "float"
     THEN (IF ~IsFinite(o.f) \/ o.f.k = "nan" THEN WithKey(VNone, o.key) ELSE o)
     ELSE IF o.ty \in {"dict", "list"}
     THEN [o EXCEPT !.items =
             [i \in 1..Len(o.items) |-> SanitizeUnboxReturns(o.items[i])]]
     ELSE o

\* a sanitiser that walks lists but not dicts
RECURSIVE SanitizeListsOnly(_)
SanitizeListsOnly(v) ==
  LET o == Unbox(v)
  IN IF o.ty = "float"
     THEN (IF ~IsFinite(o.f) \/ o.f.k = "nan" THEN WithKey(VNone, o.key) ELSE o)
     ELSE IF o.ty = "list"
     THEN [o EXCEPT !.items =
             [i \in 1..Len(o.items) |-> SanitizeListsOnly(o.items[i])]]
     ELSE o

RECURSIVE _sanitize_for_json(_)
_sanitize_for_json(v) ==
  LET o == Unbox(v)
  IN IF o.ty = "float"
     THEN (IF ~IsFinite(o.f) \/ o.f.k = "nan" THEN WithKey(VNone, o.key) ELSE o)
     ELSE IF o.ty \in {"dict", "list"}
     THEN [o EXCEPT !.items =
             [i \in 1..Len(o.items) |-> _sanitize_for_json(o.items[i])]]
     ELSE o

(***************************************************************************)
(* fetch_china_stock_data                                                  *)
(*                                                                         *)
(* A provider response is [kind, cols, rows]: kind "raises" (the call      *)
(* raised), "none" (it returned None) or "table"; cols are the column      *)
(* names of the table and rows its rows.  The raw column names are written *)
(* in pinyin: riqi, kaipan, zuigao, zuidi, shoupan, chengjiaoliang.  A raw *)
(* row holds its cells under the canonical names of their columns.         *)
(***************************************************************************)
rename_map ==
  [riqi |-> "Date", kaipan |-> "Open", zuigao |-> "High", zuidi |-> "Low",
   shoupan |-> "Close", chengjiaoliang |-> "Volume"]
required == {"Date", "Open", "High", "Low", "Close", "Volume"}

\* a raw cell that does not parse
Bad == [k |-> "bad", n |-> 0, d |-> 1]
\* pd.to_datetime(errors="coerce") of a raw date cell: a day number or NaT
ToDatetime(c) == IF c.k = "fin" /\ c.d = 1 THEN c ELSE NaN
\* pd.to_numeric(errors="coerce") of a raw cell
ToNumeric(c) == IF c.k = "bad" THEN NaN ELSE c

CoerceRow(r) ==
  [Date |-> ToDatetime(r.Date).n, Open |-> ToNumeric(r.Open),
   High |-> ToNumeric(r.High), Low |-> ToNumeric(r.Low),
   Close |-> ToNumeric(r.Close), Volume |-> ToNumeric(r.Volume)]

\* s with row r put at position i
InsertAt(s, i, r) == SubSeq(s, 1, i - 1) \o <<r>> \o SubSeq(s, i, Len(s))

\* sort_index(): every ascending order of the rows; the order of rows with
\* equal dates is left to the sorting algorithm
RECURSIVE SortIndex(_)
SortIndex(rows) ==
  IF rows = <<>> THEN {<<>>}
  ELSE LET r == Head(rows)
       IN UNION {{InsertAt(s, i, r) :
                    i \in {j \in 1..Len(s) + 1 :
                             /\ \A h \in 1..j - 1 : s[h].Date <= r.Date
                             /\ \A h \in j..Len(s) : r.Date <= s[h].Date}} :
                 s \in SortIndex(Tail(rows))}

\* lines 170-178: the tables the validation of the raw rows may return
ValidateRows(rows) ==
  LET DateOk(r) == ToDatetime(r.Date).k = "fin"
      CloseOk(r) == r.Close.k # "nan"
      dated == SelectSeq(rows, DateOk)
      coerced == [i \in 1..Len(dated) |-> CoerceRow(dated[i])]
  IN {SelectSeq(s, CloseOk) : s \in SortIndex(coerced)}

\* a fetcher without the test that all six canonical columns are present
FetchWithoutRequiredTest(resp) ==
  IF resp.kind = "raises" THEN {<<>>}
  ELSE IF resp.kind = "none" \/ resp.rows = <<>> \/ resp.cols = {}
  THEN {<<>>}
  ELSE LET existing == {c \in DOMAIN rename_map : c \in resp.cols}
       IN IF existing = {} THEN {<<>>} ELSE ValidateRows(resp.rows)

\* the tables fetch_china_stock_data may return for a provider response;
\* <<>> is the empty DataFrame
fetch_china_stock_data(resp) ==
  IF resp.kind = "raises" THEN {<<>>}                       \* lines 141-144
  ELSE IF resp.kind = "none" \/ resp.rows = <<>> \/ resp.cols = {}
  THEN {<<>>}                                               \* lines 146-147
  ELSE LET existing == {c \in DOMAIN rename_map : c \in resp.cols}
           renamed == {rename_map[c] : c \in existing}
       IN IF existing = {} THEN {<<>>}                      \* lines 158-161
          ELSE IF ~(required \subseteq renamed) THEN {<<>>} \* lines 165-168
          ELSE ValidateRows(resp.rows)

\* start_date.replace("-", "")
CleanDate(dt) == dt.y * 10000 + dt.m * 100 + dt.d

(***************************************************************************)
(* get_stock_data_with_features: records and envelopes                     *)
(***************************************************************************)
RecordKeys ==
  <<"Date", "Open", "High", "Low", "Close", "Volume", "MA_10", "MA_50",
    "Daily_Return", "Volatility_20d", "RSI">>

\* df.reset_index().to_dict(orient="records")
ToRecords(table) ==
  [t \in 1..Len(table) |->
     VDict([i \in 1..Len(RecordKeys) |->
              IF RecordKeys[i] = "Date"
              THEN WithKey(VTimestamp(table[t].Date), "Date")
              ELSE WithKey(VFloat(table[t][RecordKeys[i]]), RecordKeys[i])])]

Envelope(success, message, code, sym, rng, rows, data) ==
  [returned |-> TRUE, raised |-> FALSE, success |-> success,
   message |-> message,
   meta |-> [stock_code |-> code, symbol |-> sym,
             start_date |-> rng.start_date, end_date |-> rng.end_date,
             interval |-> rng.interval, rows |-> rows],
   data |-> data]

MsgEmptyCode == <<"Error: stock_code cannot be empty.">>
MsgNoData(sym) == <<"No data found for stock ">> \o sym \o <<".">>
MsgSuccess(sym) == <<"Successfully retrieved stock data for ">> \o sym

\* lines 245-250
EmptyCodeEnvelope(code, rng) ==
  Envelope(FALSE, MsgEmptyCode, code, <<>>, rng, 0, <<>>)
\* the no-data envelope with the success flag of the success envelope
NoDataEnvelopeSuccessTrue(code, sym, rng) ==
  Envelope(TRUE, MsgNoData(sym), code, sym, rng, 0, <<>>)
\* lines 254-259
NoDataEnvelope(code, sym, rng) ==
  Envelope(FALSE, MsgNoData(sym), code, sym, rng, 0, <<>>)
\* lines 269-274
SuccessEnvelope(code, sym, rng, recs) ==
  Envelope(TRUE, MsgSuccess(sym), code, sym, rng, Len(recs), recs)

\* the call ended with an exception instead of an envelope
Raised ==
  [returned |-> FALSE, raised |-> TRUE, success |-> FALSE, message |-> <<>>,
   meta |-> [stock_code |-> None, symbol |-> <<>>, start_date |-> NoDate,
             end_date |-> NoDate, interval |-> <<>>, rows |-> 0],
   data |-> <<>>]


(***************************************************************************)
(* Inputs of the interval resolver                                         *)
(***************************************************************************)
TodayOrdinals == {739925, 739926}          \* datetime.now(): 2026-11-05/06

IntervalAlphabet == {"0", "1", "6", "-", " ", "d", "m", "y", "M", "x", "SUP2"}
IntervalCounts == {0, 1, 5, 6, 30, 365, 2027, 2028}
IntervalForms == {"int", "bare", "d", "m", "y", "D", "pad_m", "neg", "neg_d"}

\* the interval expression of count n in the given form
IntervalOf(n, form) ==
  CASE form = "int" -> IntV(n)
    [] form = "bare" -> StrV(NatStr(n))
    [] form = "d" -> StrV(Append(NatStr(n), "d"))
    [] form = "m" -> StrV(Append(NatStr(n), "m"))
    [] form = "y" -> StrV(Append(NatStr(n), "y"))
    [] form = "D" -> StrV(Append(NatStr(n), "D"))
    [] form = "pad_m" -> StrV(<<" ">> \o NatStr(n) \o <<"M", " ">>)
    [] form = "neg" -> StrV(IntStr(-n))
    [] form = "neg_d" -> StrV(Append(IntStr(-n), "d"))

IntervalInputs ==
  {None}
    \cup {IntV(n) : n \in {-5, 739924, 739925, 1000000000}}
    \cup {IntV(-n) : n \in IntervalCounts}
    \cup {IntervalOf(n, f) : n \in IntervalCounts, f \in IntervalForms}
    \cup {StrV(s) : s \in SeqsUpTo(IntervalAlphabet, MaxStrLen)}

(***************************************************************************)
(* Placeholders for the parts of the state a specification does not use    *)
(***************************************************************************)
NoResult == [Raised EXCEPT !.raised = FALSE]
NoRaw == [kind |-> "none", cols |-> {}, rows |-> <<>>]

(***************************************************************************)
(* The interval resolver on its own                                        *)
(***************************************************************************)
InitInterval ==
  /\ pc = "resolve"
  /\ interval \in IntervalInputs
  /\ today \in TodayOrdinals
  /\ stock_code = None
  /\ range = NoRange
  /\ symbol = <<>>
  /\ calls = <<>>
  /\ raw = NoRaw
  /\ df = <<>>
  /\ records = <<>>
  /\ result = NoResult
  /\ obj = VNone
  /\ once = VNone
  /\ twice = VNone
  /\ closes = <<>>
  /\ rsi = <<>>

\* one call of _calc_date_range(interval)
CalcDateRange ==
  /\ pc = "resolve"
  /\ range' = _calc_date_range(interval, today)
  /\ pc' = "resolved"
  /\ UNCHANGED <<stock_code, interval, today, symbol, calls, raw, df, records,
                 result, obj, once, twice, closes, rsi>>

IntervalSpec == InitInterval /\ [][CalcDateRange]_vars

(***************************************************************************)
(* The sanitiser on its own: nested structures of bounded width            *)
(***************************************************************************)
Scalars ==
  {VFloat(Fin(3, 2)), VFloat(NaN), VFloat(PosInf),
   VNpFloat(Fin(3, 2)), VNpFloat(NaN), VNpFloat(NegInf),
   VInt(1), VNpInt(1), VStr, VNone}

\* scalars, and some empty and one-member containers of scalars
Level1 ==
  Scalars \cup
  {VList(<<>>), VList(<<VNpFloat(NaN)>>), VList(<<VFloat(Fin(3, 2))>>),
   VTuple(<<VFloat(NaN)>>), VDict(<<>>),
   VDict(<<WithKey(VNpFloat(NaN), "RSI")>>),
   VDict(<<WithKey(VFloat(PosInf), "RSI")>>),
   VDict(<<WithKey(VNpInt(1), "RSI")>>)}

EntryKeys == <<"Close", "RSI", "MA_10", "MA_50">>

\* lists and dicts of up to MaxWidth members of Level1
Level2 ==
  Level1
    \cup {VList(s) : s \in SeqsUpTo(Level1, MaxWidth)}
    \cup {VDict([i \in 1..Len(s) |-> WithKey(s[i], EntryKeys[i])]) :
            s \in SeqsUpTo(Level1, MaxWidth)}

InitSanitize ==
  /\ pc = "sanitize"
  /\ obj \in Level2
  /\ once = VNone
  /\ twice = VNone
  /\ interval = None
  /\ today = 0
  /\ stock_code = None
  /\ range = NoRange
  /\ symbol = <<>>
  /\ calls = <<>>
  /\ raw = NoRaw
  /\ df = <<>>
  /\ records = <<>>
  /\ result = NoResult
  /\ closes = <<>>
  /\ rsi = <<>>

\* x1 = _sanitize_for_json(x)
SanitizeOnce ==
  /\ pc = "sanitize"
  /\ once' = _sanitize_for_json(obj)
  /\ pc' = "sanitized"
  /\ UNCHANGED <<stock_code, interval, today, range, symbol, calls, raw, df,
                 records, result, obj, twice, closes, rsi>>

\* x2 = _sanitize_for_json(x1)
SanitizeTwice ==
  /\ pc = "sanitized"
  /\ twice' = _sanitize_for_json(once)
  /\ pc' = "resanitized"
  /\ UNCHANGED <<stock_code, interval, today, range, symbol, calls, raw, df,
                 records, result, obj, once, closes, rsi>>

NextSanitize == SanitizeOnce \/ SanitizeTwice

SanitizeSpec == InitSanitize /\ [][NextSanitize]_vars

\* C10: sanitising a sanitised structure changes nothing:
\* _sanitize_for_json(_sanitize_for_json(x)) = _sanitize_for_json(x).
C10_SanitizeIdempotent == pc = "resanitized" => twice = once

\* a structure holding a boxed NaN below a dict entry has been sanitised twice,
\* and the first pass changed it
C10_Witness ==
  /\ pc = "resanitized"
  /\ obj.ty = "list"
  /\ \E i \in 1..Len(obj.items) :
       /\ obj.items[i].ty = "dict"
       /\ \E j \in 1..Len(obj.items[i].items) :
            obj.items[i].items[j] = WithKey(VNpFloat(NaN), "RSI")
  /\ once # obj

(***************************************************************************)
(* The pipeline: one call of get_stock_data_with_features                  *)
(***************************************************************************)
Code600519SH == StrV(<<"6", "0", "0", "5", "1", "9", ".", "S", "H">>)
Code000001 == StrV(<<" ", "0", "0", "0", "0", "0", "1", " ">>)
EmptyCodes ==
  {None, StrV(<<>>), StrV(<<" ", " ">>), StrV(<<".", "S", "H">>),
   StrV(<<" ", ".", "S", "Z">>)}
PipelineIntervals ==
  {None, IntV(30), StrV(<<"6", "m">>), StrV(<<"3", "o", "y">>),
   StrV(<<"3", "0", "0", "0", "y">>)}

Queries ==
  {[stock_code |-> c, interval |-> i] : c \in EmptyCodes, i \in PipelineIntervals}
    \cup {[stock_code |-> Code600519SH, interval |-> StrV(<<"6", "m">>)],
          [stock_code |-> Code000001, interval |-> StrV(<<"3", "0", "0", "0", "y">>)]}

AllRawCols == DOMAIN rename_map
RawRow(date, close, aux) ==
  [Date |-> date, Open |-> aux, High |-> Fin(3, 1), Low |-> One,
   Close |-> close, Volume |-> IF aux.k = "bad" THEN Bad ELSE Hundred]

RawRows ==
  {RawRow(Fin(dt, 1), c, One) : dt \in 1..3, c \in {Zero, One, Fin(2, 1), Bad}}
    \cup {RawRow(Fin(1, 1), PosInf, One), RawRow(Bad, One, One),
          RawRow(Fin(2, 1), One, Bad)}

ProviderResponses ==
  {[kind |-> "raises", cols |-> {}, rows |-> <<>>],
   [kind |-> "none", cols |-> {}, rows |-> <<>>],
   [kind |-> "table", cols |-> AllRawCols, rows |-> <<>>],
   [kind |-> "table", cols |-> {"chengjiaoe"},
    rows |-> <<RawRow(Fin(1, 1), One, One)>>],
   [kind |-> "table", cols |-> AllRawCols \ {"shoupan"},
    rows |-> <<RawRow(Fin(1, 1), One, One)>>],
   [kind |-> "table", cols |-> AllRawCols \cup {"chengjiaoe"},
    rows |-> <<RawRow(Fin(1, 1), One, One), RawRow(Fin(2, 1), Zero, One)>>]}
    \cup {[kind |-> "table", cols |-> AllRawCols, rows |-> rs] :
            rs \in SeqsUpTo(RawRows, MaxRawRows)}

Init ==
  /\ pc = "resolve"
  /\ \E q \in Queries : stock_code = q.stock_code /\ interval = q.interval
  /\ today = 739925
  /\ range = NoRange
  /\ symbol = <<>>
  /\ calls = <<>>
  /\ raw = NoRaw
  /\ df = <<>>
  /\ records = <<>>
  /\ result = NoResult
  /\ obj = VNone
  /\ once = VNone
  /\ twice = VNone
  /\ closes = <<>>
  /\ rsi = <<>>

\* line 241 raised: the exception leaves get_stock_data_with_features
RaiseOverflow ==
  /\ pc = "resolved"
  /\ range.raised
  /\ result' = Raised
  /\ pc' = "done"
  /\ UNCHANGED <<stock_code, interval, today, range, symbol, calls, raw, df,
                 records, obj, once, twice, closes, rsi>>

\* lines 242-250
NormalizeSymbol ==
  /\ pc = "resolved"
  /\ ~range.raised
  /\ symbol' = _normalize_stock_symbol(stock_code)
  /\ IF symbol' = <<>>
     THEN /\ result' = EmptyCodeEnvelope(stock_code, range)
          /\ pc' = "done"
     ELSE /\ result' = result
          /\ pc' = "fetch"
  /\ UNCHANGED <<stock_code, interval, today, range, calls, raw, df, records,
                 obj, once, twice, closes, rsi>>

\* lines 252-259: fetch_china_stock_data(symbol, start_date, end_date) with
\* the provider answering resp
Fetch ==
  /\ pc = "fetch"
  /\ \E resp \in ProviderResponses :
       /\ raw' = resp
       /\ IF _normalize_stock_symbol(StrV(symbol)) = <<>>      \* lines 126-128
          THEN /\ calls' = calls
               /\ df' = <<>>
          ELSE /\ calls' = Append(calls,
                             [symbol |-> _normalize_stock_symbol(StrV(symbol)),
                              start_date |-> CleanDate(range.start_date),
                              end_date |-> CleanDate(range.end_date)])
               /\ df' \in fetch_china_stock_data(resp)
  /\ IF df' = <<>>
     THEN /\ result' = NoDataEnvelope(stock_code, symbol, range)
          /\ pc' = "done"
     ELSE /\ result' = result
          /\ pc' = "features"
  /\ UNCHANGED <<stock_code, interval, today, range, symbol, records, obj,
                 once, twice, closes, rsi>>

\* line 261
FeatureEngineering ==
  /\ pc = "features"
  /\ df' = feature_engineering(df)
  /\ pc' = "records"
  /\ UNCHANGED <<stock_code, interval, today, range, symbol, calls, raw,
                 records, result, obj, once, twice, closes, rsi>>

\* lines 264-274
BuildEnvelope ==
  /\ pc = "records"
  /\ records' = _sanitize_for_json(VList(ToRecords(df))).items
  /\ result' = SuccessEnvelope(stock_code, symbol, range, records')
  /\ pc' = "done"
  /\ UNCHANGED <<stock_code, interval, today, range, symbol, calls, raw, df,
                 obj, once, twice, closes, rsi>>

Next ==
  \/ CalcDateRange
  \/ RaiseOverflow
  \/ NormalizeSymbol
  \/ Fetch
  \/ FeatureEngineering
  \/ BuildEnvelope

Spec == Init /\ [][Next]_vars

(***************************************************************************)
(* The RSI block of feature_engineering on its own: Close columns long     *)
(* enough for the 14-row window to slide                                   *)
(***************************************************************************)
TailShapes == {"flat", "rise", "fall", "zigzag"}

\* n closes continuing after the close v
TailCloses(v, n, shape) ==
  [j \in 1..n |->
     CASE shape = "flat" -> v
       [] shape = "rise" -> v + j
       [] shape = "fall" -> v + n - j
       [] shape = "zigzag" -> v + (j % 2)]

HeadCloses == SeqsUpTo(1..3, 3) \ {<<>>}

CloseColumns ==
  HeadCloses \cup
  {h \o TailCloses(h[Len(h)], n, s) :
     h \in HeadCloses, n \in 1..(MaxRows - 3), s \in TailShapes}

InitFeature ==
  /\ pc = "rsi"
  /\ closes \in CloseColumns
  /\ rsi = <<>>
  /\ interval = None
  /\ today = 0
  /\ stock_code = None
  /\ range = NoRange
  /\ symbol = <<>>
  /\ calls = <<>>
  /\ raw = NoRaw
  /\ df = <<>>
  /\ records = <<>>
  /\ result = NoResult
  /\ obj = VNone
  /\ once = VNone
  /\ twice = VNone

\* lines 206-222 on the Close column closes
ComputeRSI ==
  /\ pc = "rsi"
  /\ rsi' = RSIColumn([t \in 1..Len(closes) |-> Fin(closes[t], 1)])
  /\ pc' = "rsi_done"
  /\ UNCHANGED <<stock_code, interval, today, range, symbol, calls, raw, df,
                 records, result, obj, once, twice, closes>>

FeatureSpec == InitFeature /\ [][ComputeRSI]_vars

(***************************************************************************)
(* Claims about the interval resolver (IntervalSpec)                       *)
(***************************************************************************)
\* the day count the interval grammar gives the count n in a form
ExpectedDays(n, form) ==
  CASE form = "m" -> 30 * n
    [] form = "y" -> 365 * n
    [] OTHER -> n

\* C5: for every n > 0 the integer n, "n" and "<n>d" resolve to n days, "<n>m"
\* to 30*n and "<n>y" to 365*n days, with normalized_interval "<days>d",
\* end_date - start_date exactly that many days and start_date <= end_date.
C5_IntervalMapping ==
  pc = "resolved" =>
    \A n \in IntervalCounts \ {0} : \A form \in {"int", "bare", "d", "m", "y"} :
      interval = IntervalOf(n, form) =>
        /\ ~range.raised
        /\ range.days = ExpectedDays(n, form)
        /\ range.interval = NatStr(ExpectedDays(n, form)) \o <<"d">>
        /\ Ymd2Ord(range.end_date) - Ymd2Ord(range.start_date)
             = ExpectedDays(n, form)
        /\ Ymd2Ord(range.start_date) <= Ymd2Ord(range.end_date)

\* the interval expressions of the grammar: an integer, or after trimming and
\* lower-casing a run of decimal digits with an optional d, m or y
MatchesGrammar(iv) ==
  \/ iv.t = "int"
  \/ /\ iv.t = "str"
     /\ LET s == Lower(Strip(iv.s))
            AllDecimal(u) == u # <<>> /\ \A i \in 1..Len(u) : u[i] \in DecimalDigits
        IN \/ AllDecimal(s)
           \/ /\ s # <<>>
              /\ s[Len(s)] \in {"d", "m", "y"}
              /\ AllDecimal(SubSeq(s, 1, Len(s) - 1))

\* C6: _calc_date_range never raises, whatever the interval, and an interval
\* that cannot be parsed resolves to the 365-day default.
C6_NeverRaises ==
  pc = "resolved" =>
    /\ ~range.raised
    /\ (~MatchesGrammar(interval) => range.days = 365)

\* the zero and non-positive interval inputs, as integers and as strings
NonPositiveInputs ==
  {IntV(-n) : n \in IntervalCounts}
    \cup {IntervalOf(0, f) : f \in {"bare", "d", "m", "y"}}
    \cup {IntervalOf(n, f) : n \in IntervalCounts, f \in {"neg", "neg_d"}}

\* C7: every resolved day count is at least 1, and every zero or non-positive
\* input, integer or string ("0", "0d", "0m", "0y", "-5", "-5d"), resolves to
\* exactly 1 day.
C7_ClampedToOne ==
  pc = "resolved" =>
    /\ range.days >= 1
    /\ (interval \in NonPositiveInputs => range.days = 1)

(***************************************************************************)
(* Claims about the pipeline (Spec)                                        *)
(***************************************************************************)
Symbol600519 == <<"6", "0", "0", "5", "1", "9">>

\* the entry of a record under a key
Entry(rec, key) ==
  rec.items[CHOOSE i \in 1..Len(rec.items) : rec.items[i].key = key]

\* C1: a stock_code that normalises to the empty string gives, for every
\* interval, the failure envelope "Error: stock_code cannot be empty." with
\* rows = 0 and no data, and the provider is not called.
C1_EmptyCodeEnvelope ==
  (pc = "done" /\ stock_code \in EmptyCodes) =>
    /\ result.returned
    /\ ~result.raised
    /\ ~result.success
    /\ result.message = <<"Error: stock_code cannot be empty.">>
    /\ result.meta.rows = 0
    /\ result.data = <<>>
    /\ calls = <<>>

\* what the provider did leaves no valid row: it raised, returned nothing or
\* an empty table, lacks one of the six raw fields, or every row has an
\* unparseable date or Close
ProviderGaveNoData(resp) ==
  \/ resp.kind \in {"raises", "none"}
  \/ resp.rows = <<>>
  \/ ~({"riqi", "kaipan", "zuigao", "zuidi", "shoupan", "chengjiaoliang"}
         \subseteq resp.cols)
  \/ \A i \in 1..Len(resp.rows) :
       resp.rows[i].Date.k = "bad" \/ resp.rows[i].Close.k \in {"bad", "nan"}

\* C2: with a non-empty symbol, when the provider raises, returns nothing, lacks
\* a raw field or has all its rows dropped, no exception leaves the call and the
\* result is the failure envelope "No data found for stock {symbol}." with
\* rows = 0 and no data.
C2_NoDataEnvelope ==
  (pc = "done" /\ calls # <<>> /\ ProviderGaveNoData(raw)) =>
    /\ result.returned
    /\ ~result.raised
    /\ ~result.success
    /\ result.message = <<"No data found for stock ">> \o Symbol600519 \o <<".">>
    /\ result.meta.symbol = Symbol600519
    /\ result.meta.rows = 0
    /\ result.data = <<>>

\* the provider returned a table whose rows were all dropped, one for its date
\* and one for its Close, and the call has returned
C2_Witness ==
  /\ pc = "done"
  /\ Len(calls) = 1
  /\ raw.kind = "table"
  /\ Len(raw.rows) = 2
  /\ raw.rows[1].Date.k = "bad"
  /\ raw.rows[2].Date.k = "fin"
  /\ raw.rows[2].Close.k = "bad"
  /\ result.returned

\* C3: every returned envelope has meta.rows = length(data), and success holds
\* exactly when data is non-empty.
C3_EnvelopeShape ==
  result.returned =>
    /\ result.meta.rows = Len(result.data)
    /\ result.success <=> result.data # <<>>

\* a success envelope with three records has been returned
C3_Witness ==
  /\ pc = "done"
  /\ result.returned
  /\ result.success
  /\ Len(result.data) = 3
  /\ result.meta.rows = 3

IsNull(v) == v.ty = "none"
IsFiniteNumber(v) == v.ty \in {"float", "int"} /\ v.f.k = "fin"

\* C4: in a success envelope every record carries the eleven keys, every
\* numeric value is finite or null, and an undefined indicator (first-row
\* Daily_Return, a zero previous Close, no loss in the RSI window) is null.
C4_FiniteOrNull ==
  (pc = "done" /\ result.success) =>
    \A t \in 1..Len(result.data) :
      LET rec == result.data[t]
      IN /\ rec.ty = "dict"
         /\ [i \in 1..Len(rec.items) |-> rec.items[i].key] = RecordKeys
         /\ \A i \in 2..Len(rec.items) :
              IsNull(rec.items[i]) \/ IsFiniteNumber(rec.items[i])
         /\ t = 1 => IsNull(Entry(rec, "Daily_Return"))
         /\ (t > 1 /\ Entry(result.data[t - 1], "Close") = WithKey(VFloat(Zero), "Close"))
              => IsNull(Entry(rec, "Daily_Return"))
         /\ (\A u \in 1..t :
               /\ IsFiniteNumber(Entry(result.data[u], "Close"))
               /\ u > 1 => LeqFrac(Entry(result.data[u - 1], "Close").f.n,
                                   Entry(result.data[u - 1], "Close").f.d,
                                   Entry(result.data[u], "Close").f.n,
                                   Entry(result.data[u], "Close").f.d))
              => IsNull(Entry(rec, "RSI"))

\* a success envelope whose second record follows a zero Close: its
\* Daily_Return is a division by zero and its RSI window holds no loss
C4_Witness ==
  /\ pc = "done"
  /\ result.success
  /\ Len(result.data) = 3
  /\ Entry(result.data[1], "Close").f = Zero
  /\ Entry(result.data[2], "Close").f = One
  /\ IsNull(Entry(result.data[2], "Daily_Return"))
  /\ IsNull(Entry(result.data[2], "RSI"))
  /\ IsFiniteNumber(Entry(result.data[3], "RSI"))

\* C8: every table the fetcher returns is strictly increasing by date, with no
\* duplicate dates, and every row has a finite Close.
C8_OHLCVInvariant ==
  pc = "features" =>
    /\ \A i \in 1..Len(df) - 1 : df[i].Date < df[i + 1].Date
    /\ \A i \in 1..Len(df) : df[i].Close.k = "fin"

(***************************************************************************)
(* Claims about the RSI column (FeatureSpec)                               *)
(***************************************************************************)
\* the first row of the 14-row window ending at row t that has a difference
FirstDiffRow(t) == Max(2, t - 13)

RECURSIVE SumGains(_, _, _)
SumGains(c, lo, hi) ==
  IF lo > hi THEN 0
  ELSE SumGains(c, lo, hi - 1) + Max(c[hi] - c[hi - 1], 0)

RECURSIVE SumLosses(_, _, _)
SumLosses(c, lo, hi) ==
  IF lo > hi THEN 0
  ELSE SumLosses(c, lo, hi - 1) + Max(c[hi - 1] - c[hi], 0)

\* x is within half a unit of the fourth decimal of 100 * g / (g + l), and
\* has at most four decimals
IsRounded(x, g, l) ==
  /\ x.k = "fin"
  /\ 10000 % x.d = 0
  /\ LET m == x.n * (10000 \div x.d)
     IN 2 * Abs(m * (g + l) - 1000000 * g) <= g + l

\* C9 as stated: RSI is null whenever the trailing mean loss is zero, and on
\* every other row equals 100 - 100/(1 + avg_gain/avg_loss), within [0, 100].
C9_RSIAsStated ==
  pc = "rsi_done" =>
    \A t \in 1..Len(closes) :
      LET g == SumGains(closes, FirstDiffRow(t), t)
          l == SumLosses(closes, FirstDiffRow(t), t)
      IN IF t > 1 /\ l = 0
         THEN rsi[t] = NaN
         ELSE /\ rsi[t].k = "fin"
              /\ rsi[t].n * (g + l) = 100 * g * rsi[t].d
              /\ 0 <= rsi[t].n /\ rsi[t].n <= 100 * rsi[t].d

\* C9 amended: RSI is null on the first row and whenever the trailing mean
\* loss is zero; on every other row it is 100 - 100/(1 + avg_gain/avg_loss)
\* rounded to four decimals, within [0, 100].
C9_RSIAmended ==
  pc = "rsi_done" =>
    /\ Len(rsi) = Len(closes)
    /\ \A t \in 1..Len(closes) :
         LET g == SumGains(closes, FirstDiffRow(t), t)
             l == SumLosses(closes, FirstDiffRow(t), t)
         IN IF t = 1 \/ l = 0
            THEN rsi[t] = NaN
            ELSE /\ IsRounded(rsi[t], g, l)
                 /\ 0 <= rsi[t].n /\ rsi[t].n <= 100 * rsi[t].d

\* a 16-row column whose only loss has left the window: the last row has
\* gains and no loss and a null RSI, an earlier row a finite one
C9_Witness ==
  /\ pc = "rsi_done"
  /\ Len(closes) = 16
  /\ closes[2] < closes[1]
  /\ SumLosses(closes, 3, 16) = 0
  /\ SumGains(closes, 3, 16) > 0
  /\ rsi[16] = NaN
  /\ rsi[15].k = "fin"

====
